---- MODULE Spec2Model ----
(***************************************************************************)
(* Model of src/competitor-scrape.py: the per-site frontier traversal      *)
(* (crawl_site), its link filter and URL helpers, the artifact paths of    *)
(* save_page, and the thread-pool orchestration of main().                 *)
(*                                                                         *)
(* URLs, domains and file names are strings; the Python string operations  *)
(* the code applies to them (startswith, in, replace, strip, urlparse,     *)
(* urljoin) are modelled character by character.                           *)
(***************************************************************************)
EXTENDS Integers, Sequences, FiniteSets, TLC

(***************************************************************************)
(* Python str operations                                                   *)
(***************************************************************************)

\* s[i:i+1]
CharAt(s, i) == SubSeq(s, i, i)

\* s[i-1:] (1-based i)
From(s, i) == SubSeq(s, i, Len(s))

\* s.startswith(p)
StartsWith(s, p) == Len(p) <= Len(s) /\ SubSeq(s, 1, Len(p)) = p

\* p in s
Contains(s, p) ==
    \E i \in 1..(Len(s) + 1) :
        i + Len(p) - 1 <= Len(s) /\ SubSeq(s, i, i + Len(p) - 1) = p

\* s.replace(old, new), old non-empty: leftmost non-overlapping occurrences
RECURSIVE Replace(_, _, _)
Replace(s, old, new) ==
    IF Len(s) < Len(old) \/ Len(old) = 0 THEN s
    ELSE IF StartsWith(s, old)
         THEN new \o Replace(From(s, Len(old) + 1), old, new)
         ELSE CharAt(s, 1) \o Replace(From(s, 2), old, new)

\* s.lstrip(c) and s.rstrip(c) for a single character c
RECURSIVE LStrip(_, _)
LStrip(s, c) == IF StartsWith(s, c) THEN LStrip(From(s, 2), c) ELSE s

RECURSIVE RStrip(_, _)
RStrip(s, c) ==
    IF Len(s) > 0 /\ CharAt(s, Len(s)) = c
    THEN RStrip(SubSeq(s, 1, Len(s) - 1), c) ELSE s

\* s.strip(c)
Strip(s, c) == RStrip(LStrip(s, c), c)

\* least index >= from of a character of chars in s, Len(s)+1 if none
IndexOfAny(s, chars, from) ==
    LET I == {i \in from..Len(s) : CharAt(s, i) \in chars}
    IN  IF I = {} THEN Len(s) + 1
        ELSE CHOOSE i \in I : \A j \in I : i <= j

\* greatest index of character c in s, 0 if none
LastIndexOf(s, c) ==
    LET I == {i \in 1..Len(s) : CharAt(s, i) = c}
    IN  IF I = {} THEN 0
        ELSE CHOOSE i \in I : \A j \in I : j <= i

(***************************************************************************)
(* urllib.parse as the code uses it                                        *)
(***************************************************************************)

SchemeChars ==
    {"a","b","c","d","e","f","g","h","i","j","k","l","m","n","o","p","q",
     "r","s","t","u","v","w","x","y","z","0","1","2","3","4","5","6","7",
     "8","9","+","-","."}

SchemeStart == SchemeChars \ {"0","1","2","3","4","5","6","7","8","9","+","-","."}

\* urlparse(url): the scheme is the text before the first ":" when it is a
\* valid scheme name; a netloc follows only after "//" and ends at the first
\* of "/", "?", "#"; the path ends at the first of "?", "#".
Urlparse(url) ==
    LET colon == IndexOfAny(url, {":"}, 1)
        hasScheme ==
            /\ colon <= Len(url)
            /\ colon > 1
            /\ CharAt(url, 1) \in SchemeStart
            /\ \A i \in 1..(colon - 1) : CharAt(url, i) \in SchemeChars
        scheme == IF hasScheme THEN SubSeq(url, 1, colon - 1) ELSE ""
        rest == IF hasScheme THEN From(url, colon + 1) ELSE url
        hasNetloc == StartsWith(rest, "//")
        nlEnd == IF hasNetloc THEN IndexOfAny(rest, {"/", "?", "#"}, 3) ELSE 1
        netloc == IF hasNetloc THEN SubSeq(rest, 3, nlEnd - 1) ELSE ""
        afterNl == From(rest, nlEnd)
        pathEnd == IndexOfAny(afterNl, {"?", "#"}, 1)
    IN  [scheme |-> scheme,
         netloc |-> netloc,
         path   |-> SubSeq(afterNl, 1, pathEnd - 1),
         tail   |-> From(afterNl, pathEnd)]

\* urlsplit raises ValueError("Invalid IPv6 URL") on a netloc with an
\* unmatched bracket
UrlparseRaises(url) ==
    LET n == Urlparse(url).netloc
    IN  Contains(n, "[") # Contains(n, "]")

\* urljoin(base, url) for hrefs without dot segments
Urljoin(base, url) ==
    LET b == Urlparse(base)
        u == Urlparse(url)
        root == b.scheme \o "://" \o b.netloc
        slash == LastIndexOf(b.path, "/")
    IN  IF url = "" THEN base
        ELSE IF u.scheme # "" /\ u.scheme # b.scheme THEN url
        ELSE IF u.netloc # "" THEN
                 (IF u.scheme = "" THEN b.scheme \o ":" \o url ELSE url)
        ELSE IF u.scheme # "" THEN
                 \* same scheme, no netloc ("https:x"): resolved like a path
                 root \o SubSeq(b.path, 1, slash) \o u.path \o u.tail
        ELSE IF u.path = "" THEN
                 IF StartsWith(u.tail, "?") THEN root \o b.path \o u.tail
                 ELSE root \o b.path
                      \o SubSeq(b.tail, 1, IndexOfAny(b.tail, {"#"}, 1) - 1)
                      \o u.tail
        ELSE IF StartsWith(u.path, "/") THEN root \o u.path \o u.tail
        ELSE root \o SubSeq(b.path, 1, slash) \o u.path \o u.tail

(***************************************************************************)
(* Bounds of the model                                                     *)
(***************************************************************************)

\* --max_pages ranges over 1..MaxPages when crawl_site is checked alone
MaxPages == 4

\* --max_depth ranges over 1..MaxDepth
MaxDepth == 2

\* most anchors in the nav/header/footer regions of one page
MaxNavLinks == 2

\* most input lines main() reads before DONE
MaxSites == 2

\* --max_workers ranges over 1..MaxWorkers
MaxWorkers == 2

\* --max_pages ranges over 1..MaxPagesMain when main() is checked
MaxPagesMain == 2

(***************************************************************************)
(* Utility functions of the scraper                                        *)
(***************************************************************************)

\* clean_url(url)
clean_url(url) ==
    LET parsed == Urlparse(url)
        url2 == IF parsed.scheme = "" THEN "https://" \o url ELSE url
        parsed2 == Urlparse(url2)
    IN  parsed2.scheme \o "://" \o parsed2.netloc \o "/"

\* domain = urlparse(base_url).netloc.replace("www.", "")
DomainOf(base_url) == Replace(Urlparse(base_url).netloc, "www.", "")

\* safe_filename(url)
safe_filename(url) ==
    Replace(Replace(Replace(Replace(Replace(
        Strip(url, "/"), "/", "_"), ":", ""), "?", ""), "&", ""), "=", "")

\* filename_base of save_page: the url without its scheme+domain prefix,
\* "home" when nothing is left, made filesystem-safe
filename_base(domain, url) ==
    LET rel == Replace(Replace(url, "https://" \o domain, ""),
                       "http://" \o domain, "")
    IN  safe_filename(IF rel = "" THEN "home" ELSE rel)

\* The pair of sibling artifacts save_page writes:
\* raw_pages/<domain>/<filename_base>.html and .json
save_page(domain, url) == <<"raw_pages", domain, filename_base(domain, url)>>

\* topical-maps/<domain>.json
map_path(domain) == <<"topical-maps", domain>>

BlockedSubstrings == {"#", "/wp-login", "/cart", "/checkout", "/account"}

\* is_valid_link(link, domain)
is_valid_link(link, domain) ==
    /\ StartsWith(link, "http")
    /\ Contains(link, domain)
    /\ ~ \E b \in BlockedSubstrings : Contains(link, b)

\* get_nav_links raises when urljoin raises on one of the hrefs
get_nav_links_raises(html) == \E h \in html : UrlparseRaises(h)

\* get_nav_links(html, base_url, domain): html is the set of hrefs of the
\* anchors inside the nav, header and footer regions
get_nav_links(html, base_url, domain) ==
    {l \in {Urljoin(base_url, h) : h \in html} : is_valid_link(l, domain)}

\* list(links): the enumerations of a set, in any iteration order
Orderings(S) ==
    {q \in [1..Cardinality(S) -> S] : \A a, b \in DOMAIN q : a # b => q[a] # q[b]}

(***************************************************************************)
(* State                                                                   *)
(***************************************************************************)

VARIABLES
    max_pages,          \* args.max_pages
    max_depth,          \* args.max_depth
    max_workers,        \* args.max_workers
    site_hrefs,         \* the hrefs the crawled pages may carry in nav regions
    competitor_sites,   \* main: the list of cleaned seed URLs
    mpc,                \* main: "input", "exit", "collect", "done", "raised"
    scrape_results,     \* main: the list of collected results
    futures,            \* per site: [state, result] of its pool work item
    visited,            \* per site: crawl_site's visited set
    to_visit,           \* per site: crawl_site's list of (url, depth)
    history,            \* per site: the GETs, page writes, outcomes and
                        \* dequeued depths of the traversal so far, and
                        \* whether random_delay ran since its last GET
    finished,           \* the sites whose crawl_site call has ended, in order
    alone               \* per site: visited/to_visit of the same crawl run alone

vars == <<max_pages, max_depth, max_workers, site_hrefs, competitor_sites, mpc,
          scrape_results, futures, visited, to_visit, history, finished,
          alone>>

Sites == DOMAIN competitor_sites

None == "None"

\* hrefs found on the pages of the crawled sites
HrefUniverse ==
    {"/", "y", "/d/z", "/cart", "https://b.co/", "https://b.co/?a.co",
     "http://["}

\* hrefs found on the pages when main() is checked
HrefUniverseMain == {"/", "http://["}

\* the seeds crawl_site is called with when it is checked on its own
SeedLines == {"a.co", "www.a.co"}

\* the lines typed at main's prompt
InputLines == {"a.co", "http://a.co", "b.co"}

\* the html of a fetched page, as the set of hrefs of its nav-region anchors
Htmls(hrefs) == {H \in SUBSET hrefs : Cardinality(H) <= MaxNavLinks}

(***************************************************************************)
(* crawl_site                                                              *)
(***************************************************************************)

\* Locals with one visited set shared by every crawl_site call
LocalsSharedVisited(i) ==
    [visited |-> UNION {visited[j] : j \in DOMAIN visited},
     to_visit |-> to_visit[i]]

\* crawl_site's locals as the thread of site i sees them
Locals(i) == [visited |-> visited[i], to_visit |-> to_visit[i]]

\* visited = set(); to_visit = [(base_url, 0)]
InitialLocals(base_url) == [visited |-> {}, to_visit |-> <<<<base_url, 0>>>>]

\* loop_condition with the page budget test off by one
loop_condition_inclusive(L) ==
    L.to_visit # <<>> /\ Cardinality(L.visited) <= max_pages

\* while to_visit and len(visited) < max_pages
loop_condition(L) == L.to_visit # <<>> /\ Cardinality(L.visited) < max_pages

\* may_expand with the depth test off by one
may_expand_inclusive(depth) == depth <= max_depth

\* if depth < max_depth
may_expand(depth) == depth < max_depth

\* append_entry putting the new entry at the front of the list
insert_entry_first(q, link, depth) == <<<<link, depth + 1>>>> \o q

\* to_visit.append((link, depth + 1))
append_entry(q, link, depth) == Append(q, <<link, depth + 1>>)

\* enqueue_links without the test that the link is not already queued
RECURSIVE enqueue_links_unqueued_only(_, _, _, _)
enqueue_links_unqueued_only(q, seen, nav_links, depth) ==
    IF nav_links = <<>> THEN q
    ELSE LET link == Head(nav_links)
             q2 == IF link \notin seen THEN append_entry(q, link, depth) ELSE q
         IN  enqueue_links_unqueued_only(q2, seen, Tail(nav_links), depth)

\* for link in nav_links:
\*     if link not in visited and link not in [u for u, _ in to_visit]: append
RECURSIVE enqueue_links(_, _, _, _)
enqueue_links(q, seen, nav_links, depth) ==
    IF nav_links = <<>> THEN q
    ELSE LET link == Head(nav_links)
             q2 == IF link \notin seen /\ link \notin {q[k][1] : k \in DOMAIN q}
                   THEN append_entry(q, link, depth) ELSE q
         IN  enqueue_links(q2, seen, Tail(nav_links), depth)

\* after_continue putting the abandoned entry back at the end of the list
after_continue_requeue(L) == [L EXCEPT !.to_visit = Append(Tail(@), Head(@))]

\* url, depth = to_visit.pop(0), followed by "continue" (an already visited
\* url, a failed fetch, or an exception caught by the except clause)
after_continue(L) == [L EXCEPT !.to_visit = Tail(@)]

\* a successful iteration: pop, expand the frontier when the depth allows,
\* visited.add(url)
after_visit(L, nav_links) ==
    LET url == L.to_visit[1][1]
        depth == L.to_visit[1][2]
        rest == Tail(L.to_visit)
    IN  [visited  |-> L.visited \cup {url},
         to_visit |-> IF may_expand(depth)
                      THEN enqueue_links(rest, L.visited, nav_links, depth)
                      ELSE rest]

\* a page error that escapes the loop and ends the work item
state_after_uncaught_error == "raised"

\* except Exception as e: print(...); continue -- the work item keeps running
state_after_page_error == "running"

\* one more occurrence of u counted in f
Bump(f, u) == IF u \in DOMAIN f THEN [f EXCEPT ![u] = @ + 1] ELSE f @@ (u :> 1)

\* nothing fetched, written or dequeued yet
NoHistory ==
    [gets |-> <<>>, writes |-> <<>>, kinds |-> {}, depths |-> <<>>,
     paced |-> TRUE]

\* random_delay(domain) is called on line 155 alone, after visited.add: the
\* iterations that end in it
ends_with_delay(outcome) == outcome = "ok"

\* One loop iteration of site i: its locals become L, and history records
\* the iteration (a GET unless the url was skipped, a completed save_page
\* when the page was written, the outcome, the dequeued depth, and whether
\* a delay now separates the last GET from the next)
Step(i, outcome, L, A) ==
    /\ visited' = [visited EXCEPT ![i] = L.visited]
    /\ to_visit' = [to_visit EXCEPT ![i] = L.to_visit]
    /\ alone' = [alone EXCEPT ![i] = A]
    /\ history' = [history EXCEPT ![i] =
          LET url == to_visit[i][1][1] IN
          [gets   |-> IF outcome = "skip" THEN @.gets ELSE Bump(@.gets, url),
           writes |-> IF outcome \in {"ok", "links_failed"}
                      THEN Bump(@.writes, url) ELSE @.writes,
           kinds  |-> @.kinds \cup {outcome},
           depths |-> Append(@.depths, to_visit[i][1][2]),
           paced  |-> IF outcome = "skip" THEN @.paced
                      ELSE ends_with_delay(outcome)]]
    /\ UNCHANGED <<max_pages, max_depth, max_workers, site_hrefs,
                   competitor_sites, mpc, scrape_results, finished>>

\* the same iteration applied to the crawl run alone
AloneContinue(i) ==
    IF alone[i].to_visit # <<>> THEN after_continue(alone[i]) ELSE alone[i]

AloneVisit(i, nav_links) ==
    IF alone[i].to_visit # <<>> THEN after_visit(alone[i], nav_links)
    ELSE alone[i]

InLoop(i) ==
    /\ futures[i].state = "running"
    /\ loop_condition(Locals(i))

\* What get_nav_links(html, base_url, domain) does on every page html a
\* site may serve: whether it raises and the link set it returns. The rows
\* are computed once, for every seed and href universe of the model.
PageTable ==
    [b \in {clean_url(line) : line \in InputLines \cup SeedLines},
     U \in {HrefUniverse, HrefUniverseMain} |->
        {[raises |-> get_nav_links_raises(html),
          links |-> get_nav_links(html, b, DomainOf(b))] : html \in Htmls(U)}]

\* the pages site i may serve
Pages(i) == PageTable[competitor_sites[i], site_hrefs]

\* lines 129-131: the dequeued url is already visited
SkipVisited(i) ==
    /\ InLoop(i)
    /\ Locals(i).to_visit[1][1] \in Locals(i).visited
    /\ Step(i, "skip", after_continue(Locals(i)), AloneContinue(i))
    /\ UNCHANGED futures

\* a failed iteration: requests.get raises ("error"), the status is not 200
\* ("status"), or save_page raises ("save_failed")
PageFails(i, outcome) ==
    /\ InLoop(i)
    /\ Locals(i).to_visit[1][1] \notin Locals(i).visited
    /\ Step(i, outcome, after_continue(Locals(i)), AloneContinue(i))
    /\ futures' = [futures EXCEPT ![i].state =
                      IF outcome = "status" THEN @ ELSE state_after_page_error]

FetchError(i) == PageFails(i, "error")

FetchNon200(i) == PageFails(i, "status")

SavePageFails(i) == PageFails(i, "save_failed")

\* the page is fetched and saved, then get_nav_links raises
NavLinksRaise(i) ==
    /\ InLoop(i)
    /\ Locals(i).to_visit[1][1] \notin Locals(i).visited
    /\ may_expand(Locals(i).to_visit[1][2])
    /\ \E page \in Pages(i) : page.raises
    /\ Step(i, "links_failed", after_continue(Locals(i)), AloneContinue(i))
    /\ futures' = [futures EXCEPT ![i].state = state_after_page_error]

\* lines 133-156 without an error: fetch, save, expand, mark visited, pace
VisitPage(i) ==
    /\ InLoop(i)
    /\ Locals(i).to_visit[1][1] \notin Locals(i).visited
    /\ IF may_expand(Locals(i).to_visit[1][2])
       THEN \E links \in {page.links : page \in {q \in Pages(i) : ~ q.raises}} :
              \E nav_links \in Orderings(links) :
                 Step(i, "ok", after_visit(Locals(i), nav_links),
                      AloneVisit(i, nav_links))
       ELSE Step(i, "ok", after_visit(Locals(i), <<>>), AloneVisit(i, <<>>))
    /\ UNCHANGED futures

\* lines 118-119: the domain crawl_site derives from its base_url, computed
\* once for every seed of the model
SiteDomains ==
    [b \in {clean_url(line) : line \in InputLines \cup SeedLines} |-> DomainOf(b)]

\* lines 162-172: the loop is over, the topical map is written and the
\* result returned
FinishCrawl(i) ==
    /\ futures[i].state = "running"
    /\ ~ loop_condition(Locals(i))
    /\ futures' = [futures EXCEPT ![i] =
          [state |-> "done",
           result |-> [domain |-> SiteDomains[competitor_sites[i]],
                       pages_scraped |-> Cardinality(Locals(i).visited)]]]
    /\ finished' = Append(finished, i)
    /\ UNCHANGED <<max_pages, max_depth, max_workers, site_hrefs,
                   competitor_sites, mpc, scrape_results, visited, to_visit,
                   history, alone>>

\* lines 165-168: writing the topical map raises; crawl_site raises
MapWriteFails(i) ==
    /\ futures[i].state = "running"
    /\ ~ loop_condition(Locals(i))
    /\ futures' = [futures EXCEPT ![i].state = "raised"]
    /\ finished' = Append(finished, i)
    /\ UNCHANGED <<max_pages, max_depth, max_workers, site_hrefs,
                   competitor_sites, mpc, scrape_results, visited, to_visit,
                   history, alone>>

(***************************************************************************)
(* crawl_site(base_url, max_pages, max_depth) called on its own            *)
(***************************************************************************)

\* The state main() is in when the worker of its only site enters the loop
Init ==
    /\ max_pages \in 1..MaxPages
    /\ max_depth \in 1..MaxDepth
    /\ max_workers = 1
    /\ site_hrefs = HrefUniverse
    /\ \E line \in SeedLines : competitor_sites = <<clean_url(line)>>
    /\ mpc = "collect"
    /\ scrape_results = <<>>
    /\ futures = [i \in Sites |-> [state |-> "running", result |-> None]]
    /\ visited = [i \in Sites |-> InitialLocals(competitor_sites[i]).visited]
    /\ to_visit = [i \in Sites |-> InitialLocals(competitor_sites[i]).to_visit]
    /\ history = [i \in Sites |-> NoHistory]
    /\ finished = <<>>
    /\ alone = [i \in Sites |-> InitialLocals(competitor_sites[i])]

Next ==
    \/ \E i \in Sites : SkipVisited(i)
    \/ \E i \in Sites : FetchError(i)
    \/ \E i \in Sites : FetchNon200(i)
    \/ \E i \in Sites : SavePageFails(i)
    \/ \E i \in Sites : NavLinksRaise(i)
    \/ \E i \in Sites : VisitPage(i)
    \/ \E i \in Sites : FinishCrawl(i)
    \/ \E i \in Sites : MapWriteFails(i)

Spec == Init /\ [][Next]_vars

\* The worker thread keeps running: requests.get returns or raises within
\* its timeout (line 135), time.sleep returns (line 49), and nothing else in
\* the loop blocks, so a step that can be taken is taken.
SpecFair == Spec /\ WF_vars(Next)

(***************************************************************************)
(* main(): input loop, thread pool, result collection                      *)
(***************************************************************************)

\* The state after argparse: no site read yet
InitMain ==
    /\ max_pages \in 1..MaxPagesMain
    /\ max_depth = 1
    /\ max_workers \in 1..MaxWorkers
    /\ site_hrefs = HrefUniverseMain
    /\ competitor_sites = <<>>
    /\ mpc = "input"
    /\ scrape_results = <<>>
    /\ futures = <<>>
    /\ visited = <<>>
    /\ to_visit = <<>>
    /\ history = <<>>
    /\ finished = <<>>
    /\ alone = <<>>

\* lines 208-214: one line read, cleaned, appended unless already listed
ReadLine ==
    /\ mpc = "input"
    /\ Len(competitor_sites) < MaxSites
    /\ \E line \in InputLines :
          LET cleaned == clean_url(line)
          IN  competitor_sites' =
                 IF cleaned \notin {competitor_sites[k] : k \in Sites}
                 THEN Append(competitor_sites, cleaned)
                 ELSE competitor_sites
    /\ UNCHANGED <<max_pages, max_depth, max_workers, site_hrefs, mpc,
                   scrape_results, futures, visited, to_visit, history,
                   finished, alone>>

\* lines 216-218: DONE with no site entered
ExitNoSites ==
    /\ mpc = "input"
    /\ competitor_sites = <<>>
    /\ mpc' = "exit"
    /\ UNCHANGED <<max_pages, max_depth, max_workers, site_hrefs,
                   competitor_sites, scrape_results, futures, visited,
                   to_visit, history, finished, alone>>

\* lines 224-225: DONE, then one work item submitted per site, in order
SubmitAll ==
    /\ mpc = "input"
    /\ competitor_sites # <<>>
    /\ mpc' = "collect"
    /\ futures' = [i \in Sites |-> [state |-> "queued", result |-> None]]
    /\ visited' = [i \in Sites |-> {}]
    /\ to_visit' = [i \in Sites |-> <<>>]
    /\ history' = [i \in Sites |-> NoHistory]
    /\ alone' = [i \in Sites |-> [visited |-> {}, to_visit |-> <<>>]]
    /\ UNCHANGED <<max_pages, max_depth, max_workers, site_hrefs,
                   competitor_sites, scrape_results, finished>>

RunningSites == {j \in DOMAIN futures : futures[j].state = "running"}

\* a pool worker with nothing to run at all times
worker_always_available == TRUE

\* ThreadPoolExecutor(max_workers): at most max_workers worker threads, each
\* running one work item at a time
worker_available == Cardinality(RunningSites) < max_workers

\* a worker takes the oldest queued work item and enters crawl_site
\* (lines 117-126)
StartCrawl(i) ==
    /\ futures[i].state = "queued"
    /\ \A j \in DOMAIN futures : j < i => futures[j].state # "queued"
    /\ worker_available
    /\ futures' = [futures EXCEPT ![i].state = "running"]
    /\ visited' = [visited EXCEPT ![i] = InitialLocals(competitor_sites[i]).visited]
    /\ to_visit' = [to_visit EXCEPT ![i] = InitialLocals(competitor_sites[i]).to_visit]
    /\ alone' = [alone EXCEPT ![i] = InitialLocals(competitor_sites[i])]
    /\ UNCHANGED <<max_pages, max_depth, max_workers, site_hrefs,
                   competitor_sites, mpc, scrape_results, history, finished>>

\* for f in futures, walked from the last future to the first
next_future_reversed == Len(competitor_sites) - Len(scrape_results)

\* for f in futures: the future main waits on next
next_future == Len(scrape_results) + 1

\* lines 226-228: f.result() returns, the result is appended
CollectResult ==
    /\ mpc = "collect"
    /\ Len(scrape_results) < Len(competitor_sites)
    /\ futures[next_future].state = "done"
    /\ scrape_results' = Append(scrape_results, futures[next_future].result)
    /\ UNCHANGED <<max_pages, max_depth, max_workers, site_hrefs,
                   competitor_sites, mpc, futures, visited, to_visit, history,
                   finished, alone>>

\* line 227: f.result() re-raises the exception crawl_site raised; it
\* leaves main
CollectRaises ==
    /\ mpc = "collect"
    /\ Len(scrape_results) < Len(competitor_sites)
    /\ futures[next_future].state = "raised"
    /\ mpc' = "raised"
    /\ UNCHANGED <<max_pages, max_depth, max_workers, site_hrefs,
                   competitor_sites, scrape_results, futures, visited,
                   to_visit, history, finished, alone>>

\* line 230: every future collected, build_dashboard(scrape_results)
BuildDashboard ==
    /\ mpc = "collect"
    /\ Len(scrape_results) = Len(competitor_sites)
    /\ mpc' = "done"
    /\ UNCHANGED <<max_pages, max_depth, max_workers, site_hrefs,
                   competitor_sites, scrape_results, futures, visited,
                   to_visit, history, finished, alone>>

NextMain ==
    \/ ReadLine
    \/ ExitNoSites
    \/ SubmitAll
    \/ \E i \in DOMAIN futures : StartCrawl(i)
    \/ \E i \in DOMAIN futures : SkipVisited(i)
    \/ \E i \in DOMAIN futures : FetchError(i)
    \/ \E i \in DOMAIN futures : FetchNon200(i)
    \/ \E i \in DOMAIN futures : SavePageFails(i)
    \/ \E i \in DOMAIN futures : NavLinksRaise(i)
    \/ \E i \in DOMAIN futures : VisitPage(i)
    \/ \E i \in DOMAIN futures : FinishCrawl(i)
    \/ \E i \in DOMAIN futures : MapWriteFails(i)
    \/ CollectResult
    \/ CollectRaises
    \/ BuildDashboard

SpecMain == InitMain /\ [][NextMain]_vars

(***************************************************************************)
(* Properties of crawl_site                                                *)
(***************************************************************************)

\* C1: within one site's traversal, whatever the link graph and whatever mix
\* of 200, non-200 and transport-error outcomes, no URL is the target of more
\* than one HTTP GET.
C1_NoUrlFetchedTwice ==
    \A i \in Sites :
        history[i].kinds \subseteq {"ok", "skip", "status", "error"} =>
            \A u \in DOMAIN history[i].gets : history[i].gets[u] <= 1

\* C2: the visited set never holds more than max_pages URLs, and the
\* pages_scraped a finished traversal reports is at most max_pages.
C2_VisitedWithinBudget ==
    \A i \in Sites :
        /\ Cardinality(visited[i]) <= max_pages
        /\ futures[i].state = "done" =>
               futures[i].result.pages_scraped <= max_pages

\* C2 witness: a traversal that finished because the budget ran out, with
\* entries still waiting in the frontier
C2_BudgetExhausted ==
    \E i \in Sites :
        /\ futures[i].state = "done"
        /\ max_pages >= 2
        /\ futures[i].result.pages_scraped = max_pages
        /\ to_visit[i] # <<>>

\* C3: every dequeued frontier entry has depth <= max_depth, and no entry
\* deeper than max_depth is in the frontier.
C3_DepthBounded ==
    \A i \in Sites :
        /\ \A k \in DOMAIN history[i].depths : history[i].depths[k] <= max_depth
        /\ \A k \in DOMAIN to_visit[i] : to_visit[i][k][2] <= max_depth

\* C3 witness: an entry at the maximum depth 2 was dequeued and its page
\* visited
C3_DeepestPageVisited ==
    \E i \in Sites :
        /\ max_depth = 2
        /\ history[i].depths # <<>>
        /\ history[i].depths[Len(history[i].depths)] = max_depth
        /\ history[i].kinds = {"ok"}

\* C4: the depths of the entries a site dequeues never decrease.
C4_BreadthFirst ==
    \A i \in Sites : \A j, k \in DOMAIN history[i].depths :
        j < k => history[i].depths[j] <= history[i].depths[k]

\* C4 witness: the seed, then both of its depth-1 children, then a depth-2
\* child, all visited
C4_ChildrenBeforeGrandchildren ==
    \E i \in Sites :
        /\ history[i].depths = <<0, 1, 1, 2>>
        /\ history[i].kinds = {"ok"}
        /\ Cardinality(visited[i]) = 4

\* C5: no link whose host is a different domain than the crawled site's is
\* in the site's frontier.
C5_NoForeignDomainEnqueued ==
    \A i \in Sites : \A k \in DOMAIN to_visit[i] :
        DomainOf(to_visit[i][k][1]) = DomainOf(competitor_sites[i])

\* C10: a traversal has ended only if its frontier is empty or its page
\* budget is used up; a page error never ends it.
C10_EndsOnlyByExhaustion ==
    \A i \in Sites :
        futures[i].state \in {"done", "raised"} =>
            to_visit[i] = <<>> \/ Cardinality(visited[i]) >= max_pages

\* C10 witness: a traversal that met a failed fetch and a failed page write,
\* went on, fetched a failed url again and visited it, and ran to its end
C10_LoopContinuedAfterErrors ==
    \E i \in Sites :
        /\ {"save_failed", "ok"} \subseteq history[i].kinds
        /\ history[i].kinds \cap {"error", "status"} # {}
        /\ \E u \in visited[i] : history[i].gets[u] >= 2
        /\ futures[i].state = "done"

(***************************************************************************)
(* Properties of main()                                                    *)
(***************************************************************************)

Started(i) == futures[i].state # "queued"

Ended(i) == futures[i].state \in {"done", "raised"}

\* C6: at most max_workers traversals run at any moment, so of the sites
\* started so far all but max_workers have ended.
C6_AtMostMaxWorkersRunning ==
    /\ Cardinality(RunningSites) <= max_workers
    /\ Cardinality({i \in DOMAIN futures : Started(i)})
          - Cardinality({i \in DOMAIN futures : Ended(i)}) <= max_workers

\* C6 witness: more sites than workers; the first site is crawling while the
\* second still waits for the slot
C6_SiteWaitsForSlot ==
    /\ Len(competitor_sites) = 2
    /\ max_workers = 1
    /\ DOMAIN futures = 1..2
    /\ futures[1].state = "running"
    /\ history[1].depths # <<>>
    /\ futures[2].state = "queued"

\* C7: when main reaches build_dashboard the result list holds one result
\* per submitted site, the k-th being the result of the k-th site; at any
\* moment the list is a prefix of that.
C7_ResultsInSubmissionOrder ==
    /\ Len(scrape_results) <= Len(competitor_sites)
    /\ \A k \in DOMAIN scrape_results :
          /\ futures[k].state = "done"
          /\ scrape_results[k] = futures[k].result
          /\ scrape_results[k].domain = DomainOf(competitor_sites[k])
    /\ mpc = "done" => Len(scrape_results) = Len(competitor_sites)

\* C7 witness: two sites with different results, the second finished first,
\* and main done
C7_CompletedOutOfOrder ==
    /\ mpc = "done"
    /\ Len(competitor_sites) = 2
    /\ finished = <<2, 1>>
    /\ scrape_results[1].domain # scrape_results[2].domain
    /\ scrape_results[1].pages_scraped # scrape_results[2].pages_scraped

\* C8: at every moment the visited set and frontier of each site equal
\* those of the same traversal run alone on the same responses, a site
\* ends only when its traversal alone would end, and it reports the page
\* count the traversal alone collects.
C8_IndependentOfOtherSites ==
    \A i \in DOMAIN futures :
        /\ alone[i].visited = visited[i]
        /\ alone[i].to_visit = to_visit[i]
        /\ Ended(i) => ~ loop_condition(alone[i])
        /\ futures[i].state = "done" =>
              futures[i].result.pages_scraped = Cardinality(alone[i].visited)

\* C8 witness: two sites crawled side by side; every fetch of one failed and
\* it ended with no page, while the other collected the page its traversal
\* alone collects
C8_FailingNeighbour ==
    \E i, j \in DOMAIN futures :
        /\ i # j
        /\ max_workers = 2
        /\ futures[j].state = "done"
        /\ futures[j].result.pages_scraped = 0
        /\ history[j].kinds # {}
        /\ history[j].kinds \subseteq {"error", "status"}
        /\ futures[i].state = "done"
        /\ futures[i].result.pages_scraped = 1
        /\ Cardinality(alone[i].visited) = 1
        /\ finished = <<j, i>>

\* the page artifacts site i has written so far
PagePaths(i) ==
    {save_page(DomainOf(competitor_sites[i]), u) : u \in DOMAIN history[i].writes}

\* C9: two traversals that are running at the same time have written no
\* page artifact to the same path, and their raw_pages directory and
\* topical-map file differ.
C9_DisjointArtifactPaths ==
    \A i, j \in DOMAIN futures :
        (i # j /\ futures[i].state = "running" /\ futures[j].state = "running"
              /\ PagePaths(i) # {} /\ PagePaths(j) # {}) =>
            /\ PagePaths(i) \cap PagePaths(j) = {}
            /\ map_path(DomainOf(competitor_sites[i]))
                  # map_path(DomainOf(competitor_sites[j]))

\* C11: a traversal that raised (its topical-map write failed) does not keep
\* the other sites from being reported: once main is over, it is over
\* through build_dashboard, and the result list it hands over holds the
\* result of every site whose traversal completed.
C11_DashboardDespiteFatalError ==
    \A i \in DOMAIN futures :
        (futures[i].state = "done" /\ mpc \in {"done", "raised"}) =>
            /\ mpc = "done"
            /\ \E k \in DOMAIN scrape_results :
                  scrape_results[k] = futures[i].result

(***************************************************************************)
(* Further properties of crawl_site                                        *)
(***************************************************************************)

\* the sum of the counts in f
RECURSIVE Total(_)
Total(f) ==
    IF DOMAIN f = {} THEN 0
    ELSE LET u == CHOOSE x \in DOMAIN f : TRUE
         IN  f[u] + Total([x \in DOMAIN f \ {u} |-> f[x]])

\* C12: the number of save_page calls a site has completed never exceeds
\* max_pages, also when a step after the write of a page raises.
C12_WritesWithinBudget ==
    \A i \in Sites : Total(history[i].writes) <= max_pages

\* C13: a URL whose fetch failed (non-200 status or transport error) is in
\* the visited set from then on; in runs where every iteration was a skip, a
\* failed fetch or a full visit, every URL that was the target of a GET is
\* in visited.
C13_FailedFetchMarkedVisited ==
    \A i \in Sites :
        history[i].kinds \subseteq {"ok", "skip", "status", "error"} =>
            DOMAIN history[i].gets \subseteq visited[i]

\* site i issues a GET in this step
Fetches(i) == Total(history'[i].gets) > Total(history[i].gets)

\* C14: a site issues a GET only when random_delay has run since its
\* previous GET, whether that one succeeded or failed; and a step that
\* dequeues an already visited URL issues no GET and runs no delay.
C14_DelayBetweenFetches ==
    [][\A i \in Sites :
          /\ Fetches(i) => history[i].paced
          /\ (history'[i] # history[i]
                 /\ to_visit[i][1][1] \in visited[i]) =>
                /\ ~ Fetches(i)
                /\ history'[i].paced = history[i].paced]_vars

\* the most iterations one frontier entry of depth d can lead to: itself,
\* and the entries of at most MaxNavLinks links one level deeper
RECURSIVE Weight(_)
Weight(d) == IF d >= max_depth THEN 1 ELSE 1 + MaxNavLinks * Weight(d + 1)

\* the most iterations the frontier q can still lead to
RECURSIVE Variant(_)
Variant(q) == IF q = <<>> THEN 0 ELSE Weight(Head(q)[2]) + Variant(Tail(q))

\* C15: every traversal eventually ends, with its frontier empty or its
\* visited set at max_pages, whatever cycles and self-links the pages hold
\* and whichever fetches fail; every loop iteration lowers the number of
\* iterations the frontier can still lead to.
C15_CrawlTerminates ==
    /\ <>(\A i \in Sites : Ended(i) /\ ~ loop_condition(Locals(i)))
    /\ [][\A i \in Sites :
             history'[i] # history[i] =>
                 Variant(to_visit'[i]) < Variant(to_visit[i])]_vars

\* C15 witness: a traversal that dequeued a self-link or a link back to a
\* visited page, met failing and succeeding fetches, and ended
C15_EndedDespiteCyclesAndFailures ==
    \E i \in Sites :
        /\ Ended(i)
        /\ {"skip", "ok"} \subseteq history[i].kinds
        /\ history[i].kinds \cap {"error", "status"} # {}
        /\ \E u \in visited[i] : history[i].gets[u] >= 2

\* the entries the step appended to the frontier of site i
Enqueued(i) ==
    {to_visit'[i][k] : k \in Len(to_visit[i])..Len(to_visit'[i])}

\* C16: every link enqueued while a page of the site's own domain is
\* expanded is an href of the page resolved against that page's URL, at
\* every depth.
C16_LinksResolvedAgainstPage ==
    [][\A i \in Sites :
          (history'[i] # history[i]
             /\ DomainOf(to_visit[i][1][1]) = DomainOf(competitor_sites[i])) =>
             \A e \in Enqueued(i) :
                 e[1] \in {Urljoin(to_visit[i][1][1], h) : h \in site_hrefs}]_vars

\* the URLs of the entries of the frontier q
QueuedUrls(q) == {q[k][1] : k \in DOMAIN q}

\* C17: the frontier never holds a URL in two entries; an entry a loop
\* iteration appends has a URL that was neither in visited nor in the rest
\* of the frontier when the page was expanded, and its depth is the depth of
\* the expanded page plus one.
C17_FrontierEntriesUnique ==
    /\ [](\A i \in Sites : \A j, k \in DOMAIN to_visit[i] :
             j # k => to_visit[i][j][1] # to_visit[i][k][1])
    /\ [][\A i \in Sites :
             history'[i] # history[i] =>
                 \A e \in Enqueued(i) :
                     /\ e[1] \notin visited[i]
                     /\ e[1] \notin QueuedUrls(Tail(to_visit[i]))
                     /\ e[2] = to_visit[i][1][2] + 1]_vars

\* C17 witness: two pages visited, the second of them at depth 1 and
\* expanded while another depth-1 entry was still queued, so that entries of
\* depth 1 and of depth 2 wait in the frontier together
C17_TwoLevelsQueued ==
    \E i \in Sites :
        /\ Cardinality(visited[i]) >= 2
        /\ history[i].depths = <<0, 1>>
        /\ Len(to_visit[i]) >= 3
        /\ {to_visit[i][k][2] : k \in DOMAIN to_visit[i]} = {1, 2}
====
